---- MODULE Spec2Model ----
(***************************************************************************)
(* Model of the football-scores gateway provider:                          *)
(*   GatewayProviderImplementation.predictFixtureResults / create /        *)
(*   getDetails / delete   (src/src/protocol/gateway-provider.ts)          *)
(*   makePredictionRequest (src/unnamed/part_000)                          *)
(*                                                                         *)
(* Strings that the code parses or formats are modelled by their syntax:   *)
(* a JSON text is a record (layout, syntax, value), a timestamp string is  *)
(* a record of its printed fields.  Parsing and printing are operators on  *)
(* these records, so a parse/print round trip is not the identity.         *)
(***************************************************************************)
EXTENDS Integers, Sequences, FiniteSets, TLC

\* ------------------------------------------------------------------ bounds

\* Longest challenge array drawn as an input of the normalization.
MaxRecords == 2

\* Largest purchased allowance drawn as an input of create.
MaxAllowance == 50

\* ------------------------------------------------------- timestamp strings

(* A kickoffTime as it stands in the JSON text.
     k    : "iso"     an ISO-8601 date-time string,
            "garbage" a string Date cannot parse,
            "absent"  the record has no kickoffTime property
     yfmt : how the year is printed: "YYYY", "+YYYYYY" or "-YYYYYY"
     ms   : the three fraction digits, or -1 when the string has no ".sss"
     tz   : the zone suffix: "Z", "+02:00", "-01:00", "" (none: local time);
            "ZZ" can only come out of a faulty rewrite                        *)
TimeStr(k, yfmt, y, mo, d, h, mi, s, ms, tz) ==
  [k |-> k, yfmt |-> yfmt, y |-> y, mo |-> mo, d |-> d,
   h |-> h, mi |-> mi, s |-> s, ms |-> ms, tz |-> tz]

Iso(y, mo, d, h, mi, s, ms, tz) == TimeStr("iso", "YYYY", y, mo, d, h, mi, s, ms, tz)

GarbageTime == TimeStr("garbage", "YYYY", 0, 1, 1, 0, 0, 0, -1, "")
AbsentTime == TimeStr("absent", "YYYY", 0, 1, 1, 0, 0, 0, -1, "")

\* Offset of the host's local zone from UTC, in minutes (the zone Date applies
\* to a date-time string that carries no zone suffix).
HostOffsets == {0, 120}

OffsetMinutes(tz, host) ==
  CASE tz = "Z" -> 0
    [] tz = "+02:00" -> 120
    [] tz = "-01:00" -> -60
    [] OTHER -> host

\* Days since 1970-01-01 of a civil date (proleptic Gregorian), ES MakeDay.
DaysFromCivil(y, mo, d) ==
  LET yy == IF mo <= 2 THEN y - 1 ELSE y
      era == yy \div 400
      yoe == yy - era * 400
      mp == IF mo > 2 THEN mo - 3 ELSE mo + 9
      doy == (153 * mp + 2) \div 5 + d - 1
      doe == yoe * 365 + yoe \div 4 - yoe \div 100 + doy
  IN era * 146097 + doe - 719468

\* The civil date of a day number, ES YearFromTime / MonthFromTime / DateFromTime.
CivilFromDays(day) ==
  LET z == day + 719468
      era == z \div 146097
      doe == z - era * 146097
      yoe == (doe - doe \div 1460 + doe \div 36524 - doe \div 146096) \div 365
      doy == doe - (365 * yoe + yoe \div 4 - yoe \div 100)
      mp == (5 * doy + 2) \div 153
      d == doy - (153 * mp + 2) \div 5 + 1
      mo == IF mp < 10 THEN mp + 3 ELSE mp - 9
      y == yoe + era * 400 + (IF mo <= 2 THEN 1 ELSE 0)
  IN [y |-> y, mo |-> mo, d |-> d]

(* new Date(string): the time value, kept as (day, second of day, millisecond)
   because the millisecond count since the epoch does not fit 32 bits.
   A string Date cannot parse, or undefined, gives the Invalid Date.          *)
InvalidDate == [valid |-> FALSE, day |-> 0, sec |-> 0, ms |-> 0]

NewDate(t, host) ==
  IF t.k # "iso" \/ t.tz = "ZZ"
  THEN InvalidDate
  ELSE LET secs == t.h * 3600 + t.mi * 60 + t.s - OffsetMinutes(t.tz, host) * 60
       IN [valid |-> TRUE,
           day |-> DaysFromCivil(t.y, t.mo, t.d) + secs \div 86400,
           sec |-> secs % 86400,
           ms |-> IF t.ms < 0 THEN 0 ELSE t.ms]

(* Date.prototype.toISOString of a valid time value: always UTC, always three
   fraction digits, and an expanded six-digit signed year outside 0..9999.   *)
ToISOString(tv) ==
  LET c == CivilFromDays(tv.day)
      yfmt == IF c.y > 9999 THEN "+YYYYYY" ELSE IF c.y < 0 THEN "-YYYYYY" ELSE "YYYY"
  IN TimeStr("iso", yfmt, c.y, c.mo, c.d,
             tv.sec \div 3600, (tv.sec % 3600) \div 60, tv.sec % 60, tv.ms, "Z")

\* s.split(".")[0]: everything before the first dot, the whole string if none.
SplitDotFirst(t) == IF t.ms < 0 THEN t ELSE [t EXCEPT !.ms = -1, !.tz = ""]

\* Variant: the suffix is left out.
AppendNothing(t) == t

\* s + "Z"
AppendZ(t) == [t EXCEPT !.tz = t.tz \o "Z"]

\* Variant: the string is cut at the dot without going through Date.
StripMillisecondsNoDate(t, host) == AppendZ(SplitDotFirst(t))

\* new Date(kickoffTime).toISOString().split(".")[0] + "Z"
StripMilliseconds(t, host) == AppendZ(SplitDotFirst(ToISOString(NewDate(t, host))))

\* ------------------------------------------------------------- JSON texts

(* A string as the code handles it.
     syntax : "json"      well-formed JSON text of value v, printed in `layout`
              "plain"     any other string, its characters in s
              "undefined" no string at all
     layout : "compact" is what JSON.stringify prints; "spaced" is the same
              value with insignificant white space                           *)
NullValue == [k |-> "null", items |-> <<>>]
ObjectValue == [k |-> "object", items |-> <<>>]
ArrayValue(items) == [k |-> "array", items |-> items]

JsonText(layout, v) == [syntax |-> "json", layout |-> layout, s |-> "", v |-> v]
PlainText(s) == [syntax |-> "plain", layout |-> "compact", s |-> s, v |-> NullValue]
Undefined == [syntax |-> "undefined", layout |-> "compact", s |-> "", v |-> NullValue]

\* One element of the challenge array: a fixture record, or null.
Challenge(kickoffTime, home, away) ==
  [k |-> "object", kickoffTime |-> kickoffTime, home |-> home, away |-> away]
NullItem == [k |-> "null", kickoffTime |-> AbsentTime, home |-> "", away |-> ""]

\* ------------------------------------------------------------ error values

(* What a throw carries.  type is the class of the error; code, message and
   predictions are the PipeError's response code and body; status and body are
   the downstream status and response body when the error carries them; cause
   is the error's cause.                                                      *)
NoStatus == 0

ErrorValue(type, code, message, predictions, cause) ==
  [type |-> type, code |-> code, message |-> message, status |-> NoStatus,
   body |-> Undefined, predictions |-> predictions, cause |-> cause]

PipeError(code, message, predictions) ==
  ErrorValue("PipeError", code, message, predictions, "")

SyntaxError == ErrorValue("SyntaxError", "", "Unexpected token", Undefined, "")
TypeError == ErrorValue("TypeError", "", "Cannot read properties", Undefined, "")
RangeError == ErrorValue("RangeError", "", "Invalid time value", Undefined, "")
NoError == ErrorValue("", "", "", Undefined, "")

Return(text) == [kind |-> "return", text |-> text, error |-> NoError]
Throw(error) == [kind |-> "throw", text |-> Undefined, error |-> error]
Pending == [kind |-> "pending", text |-> Undefined, error |-> NoError]

\* ------------------------------------------------- the payload normalization

\* JSON.stringify(value): always the compact layout.
JSONStringify(v) == JsonText("compact", v)

\* Variant: the callback returns { kickoffTime: <rewritten> } without the spread.
MapChallengeNoSpread(challenge, host) ==
  [k |-> "object", kickoffTime |-> StripMilliseconds(challenge.kickoffTime, host),
   home |-> "", away |-> ""]

\* The callback of objChallenges.map: { ...challenge, kickoffTime: <rewritten> }
MapChallenge(challenge, host) ==
  [challenge EXCEPT !.kickoffTime = StripMilliseconds(challenge.kickoffTime, host)]

\* What evaluating the callback on one element throws, NoError if nothing.
MapChallengeError(challenge, host) ==
  IF challenge.k = "null" THEN TypeError
  ELSE IF ~NewDate(challenge.kickoffTime, host).valid THEN RangeError
  ELSE NoError

(* Lines 79-89 of predictFixtureResults: JSON.parse(challenges), map, and
   JSON.stringify.  JSON.parse throws SyntaxError on a string that is not JSON;
   .map on a value that is no array throws TypeError; the callback throws on
   the first element it cannot rewrite.                                       *)
NormalizeChallenges(challenges, host) ==
  IF challenges.syntax # "json" THEN Throw(SyntaxError)
  ELSE LET objChallenges == challenges.v
           items == objChallenges.items
           bad == {n \in DOMAIN items : MapChallengeError(items[n], host) # NoError}
       IN IF objChallenges.k # "array" THEN Throw(TypeError)
          ELSE IF bad # {}
          THEN Throw(MapChallengeError(items[CHOOSE n \in bad : \A m \in bad : n <= m], host))
          ELSE Return(JSONStringify(
                 ArrayValue([n \in DOMAIN items |-> MapChallenge(items[n], host)])))

\* ------------------------------------------------------------------ inputs

TimeInputs ==
  { Iso(2024, 5, 1, 12, 0, 0, 123, "Z"),
    Iso(2024, 5, 1, 12, 0, 0, -1, "Z"),
    Iso(2024, 2, 29, 23, 30, 15, 999, "-01:00"),
    Iso(2024, 12, 31, 23, 59, 59, -1, ""),
    Iso(1969, 12, 31, 23, 59, 59, 999, "Z"),
    Iso(2025, 1, 1, 1, 0, 0, 0, "+02:00"),
    Iso(9999, 12, 31, 23, 59, 59, 500, "-01:00") }

ItemInputs ==
  {Challenge(t, "A", "B") : t \in TimeInputs \cup {GarbageTime, AbsentTime}}
    \cup {Challenge(Iso(2024, 5, 1, 12, 0, 0, 123, "Z"), "C", "D"), NullItem}

SeqsUpTo(S, n) == UNION {[1..m -> S] : m \in 0..n}

ChallengeTexts ==
  {JsonText(layout, ArrayValue(items)) :
     layout \in {"compact", "spaced"}, items \in SeqsUpTo(ItemInputs, MaxRecords)}
    \cup {JsonText("compact", NullValue), JsonText("spaced", ObjectValue),
          PlainText("not json"), PlainText("")}

\* A valid challenge array: JSON text of an array of records, each with a
\* kickoffTime Date can parse.
ValidChallenges(text, host) ==
  /\ text.syntax = "json"
  /\ text.v.k = "array"
  /\ \A n \in DOMAIN text.v.items :
       /\ text.v.items[n].k = "object"
       /\ NewDate(text.v.items[n].kickoffTime, host).valid

\* A kickoffTime rewritten as the contract wants it: no fraction, Z suffix,
\* the same instant cut down to whole seconds.
WholeSeconds(tv) == [tv EXCEPT !.ms = 0]

TruncatedFrom(in, out, h) ==
  /\ out.k = "iso"
  /\ out.ms = -1
  /\ out.tz = "Z"
  /\ NewDate(out, h) = WholeSeconds(NewDate(in, h))

\* --------------------------------------------------- the world of a call

Calls == {"c1", "c2"}

\* this.protocol.address
ProtocolAddress == "0xProtocol"

Offers == {"offerA", "offerB", "offerC"}

Configuration(apiBaseURL, apiKey) ==
  [found |-> TRUE, apiBaseURL |-> apiBaseURL, apiKey |-> apiKey]
NoConfiguration == [found |-> FALSE, apiBaseURL |-> "", apiKey |-> ""]

\* What the resolver holds: offerC has no configuration.
GetVirtualProviderConfiguration(offerId, address) ==
  CASE offerId = "offerA" /\ address = ProtocolAddress ->
         Configuration("https://a.example/predict", "keyA")
    [] offerId = "offerB" /\ address = ProtocolAddress ->
         Configuration("https://b.example/predict", "keyB")
    [] OTHER -> NoConfiguration

PipeResponseCodes == [OK |-> "OK", INTERNAL_SERVER_ERROR |-> "INTERNAL_SERVER_ERROR"]

\* AbortSignal.timeout(120000)
TimeoutMs == 120000

\* Granularity of the clock that measures a pending fetch.
TickMs == 60000

\* What fetch rejects with.
NetworkErrors ==
  { ErrorValue("TypeError", "", "fetch failed", Undefined, "ECONNREFUSED"),
    ErrorValue("TypeError", "", "fetch failed", Undefined, "ENOTFOUND") }
TimeoutError ==
  ErrorValue("TimeoutError", "", "The operation was aborted due to timeout", Undefined, "")
\* What reading a broken response body rejects with.
BodyReadError == ErrorValue("TypeError", "", "terminated", Undefined, "ECONNRESET")

\* Downstream answers.  A body of "echo" stands for the request body sent back.
Statuses == {200, 404, 500}
FixedPredictions ==
  JsonText("spaced", ArrayValue(<<Challenge(Iso(2024, 5, 1, 12, 0, 0, -1, "Z"), "1", "0")>>))
HtmlBody == PlainText("<html>Bad Gateway</html>")

NoResponse == [arrived |-> FALSE, status |-> NoStatus, ok |-> FALSE,
               readable |-> FALSE, body |-> Undefined]
Response(status, readable, body) ==
  [arrived |-> TRUE, status |-> status, ok |-> status \in 200..299,
   readable |-> readable, body |-> body]

Request(url, apiKey, body) ==
  [method |-> "POST", url |-> url, contentType |-> "application/json",
   authorization |-> [scheme |-> "Bearer", credential |-> apiKey], body |-> body]

LogEntry(level, message, url, status, text, cause) ==
  [level |-> level, message |-> message, url |-> url, status |-> status,
   text |-> text, cause |-> cause]

\* The outcome of predictFixtureResults as its caller sees it.
NoOutcome == [kind |-> "pending", predictions |-> Undefined, responseCode |-> "",
              error |-> NoError]
Returned(predictions, responseCode) ==
  [kind |-> "return", predictions |-> predictions, responseCode |-> responseCode,
   error |-> NoError]
Thrown(error) ==
  [kind |-> "throw", predictions |-> Undefined, responseCode |-> "", error |-> error]

\* The challenges strings the calls are invoked with.
CallChallenges ==
  { JsonText("spaced", ArrayValue(<<Challenge(Iso(2024, 5, 1, 12, 0, 0, 123, "Z"), "A", "B")>>)),
    JsonText("compact", ArrayValue(<<Challenge(Iso(2025, 1, 1, 1, 0, 0, 0, "+02:00"), "C", "D"),
                                     Challenge(Iso(2024, 5, 1, 12, 0, 0, -1, "Z"), "A", "B")>>)),
    JsonText("compact", ArrayValue(<<Challenge(GarbageTime, "A", "B")>>)),
    JsonText("compact", NullValue),
    PlainText("not json") }

ResourceDetails(status, allowance, count) ==
  [status |-> status, Predictions_Allowance_Count |-> allowance,
   Predictions_Count |-> count]

\* ------------------------------------------------------ lifecycle hooks

(* offer.details as create sees it.
     type      : what typeof gives: "object" (the parsed details), "string"
                 (details kept as opaque text) or "undefined"
     hasNumber : params has a "Number of Predictions" entry
     value     : that entry's value
     hasOther  : params has other entries                                     *)
OfferDetails(type, hasNumber, value, hasOther) ==
  [type |-> type, hasNumber |-> hasNumber, value |-> value, unit |-> "count",
   hasOther |-> hasOther]

OfferInputs ==
  {OfferDetails("object", TRUE, v, o) : v \in 0..MaxAllowance, o \in BOOLEAN}
    \cup {OfferDetails("object", FALSE, 0, o) : o \in BOOLEAN}
    \cup {OfferDetails("string", FALSE, 0, FALSE), OfferDetails("undefined", FALSE, 0, FALSE)}

InvalidOfferDetails == ErrorValue("Error", "", "Invalid offer details", Undefined, "")

NoDetails == ResourceDetails("", 0, 0)
NotCreated == [kind |-> "pending", details |-> NoDetails, error |-> NoError]
CreateReturned(d) == [kind |-> "return", details |-> d, error |-> NoError]
CreateThrown(e) == [kind |-> "throw", details |-> NoDetails, error |-> e]

NoResource == [deploymentStatus |-> "", details |-> NoDetails]

\* Variant: the guard tests that details is present, not that it is an object.
DetailsArePresent(d) == d.type # "undefined"

\* typeof offer.details == "object"
DetailsAreObject(d) == d.type = "object"

\* offer.details?.params["Number of Predictions"]?.value || 0
NumberOfPredictions(d) == IF d.hasNumber /\ d.value # 0 THEN d.value ELSE 0

\* ------------------------------------------------------------------- state

VARIABLES
  host,         \* the host's zone offset, in minutes
  nStep,        \* normalization runs: how many times the rewrite was applied
  nInput,       \* normalization runs: the challenges string
  nOnce,        \* normalization runs: outcome of normalizing nInput
  nTwice,       \* normalization runs: outcome of normalizing nOnce's text
  pc,           \* per call: where predictFixtureResults is suspended
  agreement,    \* per call: the agreement argument (its offerId)
  resource,     \* per call: the resource argument
  challenges,   \* per call: the challenges argument, as the caller holds it
  configuration,        \* per call: the local of the same name
  challengesToPredict,  \* per call: the local of the same name
  response,     \* per call: the Response fetch resolved with
  elapsed,      \* per call: milliseconds since the fetch was issued
  outcome,      \* per call: what the call returned or threw
  rejection,    \* per call: the error fetch rejected with, NoError if none
  requests,     \* per call: the outbound requests issued on its behalf
  logger,       \* the provider's logger: the entries written, in order
  lpc,          \* lifecycle runs: "new", "created", "failed" or "deleted"
  offer,        \* lifecycle runs: the details of the offer given to create
  created,      \* lifecycle runs: what create returned or threw
  stored,       \* lifecycle runs: the resource the leasing subsystem keeps
  details       \* lifecycle runs: what the last getDetails returned

normVars == <<nStep, nInput, nOnce, nTwice>>
inputVars == <<agreement, resource, challenges>>
callVars == <<pc, configuration, challengesToPredict, response, elapsed, outcome,
              rejection, requests, logger>>
lifeVars == <<lpc, offer, created, stored, details>>

vars == <<host, normVars, inputVars, callVars, lifeVars>>

\* ------------------------------------------------ normalization on its own

NormParked ==
  /\ nStep = 0
  /\ nInput = Undefined
  /\ nOnce = Pending
  /\ nTwice = Pending

CallsParked ==
  /\ pc = [i \in Calls |-> "done"]
  /\ agreement = [i \in Calls |-> [offerId |-> "offerC"]]
  /\ resource = [i \in Calls |-> ResourceDetails("Running", 0, 0)]
  /\ challenges = [i \in Calls |-> Undefined]
  /\ configuration = [i \in Calls |-> NoConfiguration]
  /\ challengesToPredict = [i \in Calls |-> Undefined]
  /\ response = [i \in Calls |-> NoResponse]
  /\ elapsed = [i \in Calls |-> 0]
  /\ outcome = [i \in Calls |-> NoOutcome]
  /\ rejection = [i \in Calls |-> NoError]
  /\ requests = [i \in Calls |-> <<>>]
  /\ logger = <<>>

LifecycleParked ==
  /\ lpc = "deleted"
  /\ offer = OfferDetails("undefined", FALSE, 0, FALSE)
  /\ created = NotCreated
  /\ stored = NoResource
  /\ details = NoDetails

InitNorm ==
  /\ nStep = 0
  /\ host \in HostOffsets
  /\ nInput \in ChallengeTexts
  /\ nOnce = Pending
  /\ nTwice = Pending
  /\ CallsParked
  /\ LifecycleParked

NormalizeOnce ==
  /\ nStep = 0
  /\ nOnce' = NormalizeChallenges(nInput, host)
  /\ nStep' = 1
  /\ UNCHANGED <<host, nInput, nTwice, inputVars, callVars, lifeVars>>

NormalizeAgain ==
  /\ nStep = 1
  /\ nOnce.kind = "return"
  /\ nTwice' = NormalizeChallenges(nOnce.text, host)
  /\ nStep' = 2
  /\ UNCHANGED <<host, nInput, nOnce, inputVars, callVars, lifeVars>>

NextNorm == NormalizeOnce \/ NormalizeAgain

SpecNorm == InitNorm /\ [][NextNorm]_vars

\* ------------------------------------------------- predictFixtureResults

Init ==
  /\ host = 0
  /\ NormParked
  /\ pc = [i \in Calls |-> "idle"]
  /\ agreement \in [Calls -> [offerId : Offers]]
  /\ resource = [i \in Calls |-> ResourceDetails("Running", 50, 0)]
  /\ challenges \in [Calls -> CallChallenges]
  /\ configuration = [i \in Calls |-> NoConfiguration]
  /\ challengesToPredict = [i \in Calls |-> Undefined]
  /\ response = [i \in Calls |-> NoResponse]
  /\ elapsed = [i \in Calls |-> 0]
  /\ outcome = [i \in Calls |-> NoOutcome]
  /\ rejection = [i \in Calls |-> NoError]
  /\ requests = [i \in Calls |-> <<>>]
  /\ logger = <<>>
  /\ LifecycleParked

\* The call is made: it runs up to its first await, the configuration lookup.
Invoke(i) ==
  /\ pc[i] = "idle"
  /\ pc' = [pc EXCEPT ![i] = "lookup"]
  /\ UNCHANGED <<host, normVars, lifeVars, inputVars, configuration, challengesToPredict,
                 response, elapsed, outcome, rejection, requests, logger>>

\* Variant: the configuration is used without the check.
ConfigurationUnchecked(conf) == TRUE

\* if (!configuration) throw ...: the check of the lookup's result.
ConfigurationExists(conf) == conf.found

\* The PipeError thrown when the lookup returned nothing.
ConfigurationMissing ==
  PipeError(PipeResponseCodes.INTERNAL_SERVER_ERROR,
            "Configuration of the Offer is not found", Undefined)

\* Variant: the PipeError takes the downstream status and body along.
PredictionRequestFailedWithStatus(resp) ==
  [PipeError(PipeResponseCodes.INTERNAL_SERVER_ERROR, "Prediction is failed", PlainText(""))
     EXCEPT !.status = resp.status, !.body = resp.body]

\* The PipeError thrown on a response that is not ok: a fixed body, nothing
\* of the response in it.
PredictionRequestFailed(resp) ==
  PipeError(PipeResponseCodes.INTERNAL_SERVER_ERROR, "Prediction is failed", PlainText(""))

\* Variant: the response is kept in a variable all calls share, so a call
\* reads the response that arrived for another call.
ResponseShared(i) ==
  IF \E j \in Calls \ {i} : response[j].arrived
  THEN response[CHOOSE j \in Calls \ {i} : response[j].arrived]
  ELSE response[i]

\* The local `response` of a call's makePredictionRequest.
ResponseOf(i) == response[i]

(* The lookup resolves and the call runs on to its next await: the check of
   the configuration, the rewrite of the payload, and makePredictionRequest
   up to the fetch it issues.                                               *)
ConfigurationResolved(i) ==
  /\ pc[i] = "lookup"
  /\ LET conf == GetVirtualProviderConfiguration(agreement[i].offerId, ProtocolAddress)
         norm == NormalizeChallenges(challenges[i], host)
     IN /\ configuration' = [configuration EXCEPT ![i] = conf]
        /\ IF ~ConfigurationExists(conf)
           THEN /\ outcome' = [outcome EXCEPT ![i] = Thrown(ConfigurationMissing)]
                /\ pc' = [pc EXCEPT ![i] = "done"]
                /\ UNCHANGED <<challengesToPredict, requests, elapsed>>
           ELSE IF norm.kind = "throw"
           THEN /\ outcome' = [outcome EXCEPT ![i] = Thrown(norm.error)]
                /\ pc' = [pc EXCEPT ![i] = "done"]
                /\ UNCHANGED <<challengesToPredict, requests, elapsed>>
           ELSE /\ challengesToPredict' = [challengesToPredict EXCEPT ![i] = norm.text]
                /\ requests' = [requests EXCEPT ![i] =
                      Append(@, Request(conf.apiBaseURL, conf.apiKey, norm.text))]
                /\ elapsed' = [elapsed EXCEPT ![i] = 0]
                /\ pc' = [pc EXCEPT ![i] = "fetch"]
                /\ UNCHANGED outcome
  /\ UNCHANGED <<host, normVars, lifeVars, inputVars, response, rejection, logger>>

\* Time passes while the fetch is pending.
Tick(i) ==
  /\ pc[i] = "fetch"
  /\ elapsed[i] < TimeoutMs
  /\ elapsed' = [elapsed EXCEPT ![i] = @ + TickMs]
  /\ UNCHANGED <<host, normVars, lifeVars, inputVars, pc, configuration, challengesToPredict,
                 response, outcome, rejection, requests, logger>>

\* Variant: the .catch issues the request a second time instead of giving up.
FetchRejectedRetries(i, err) ==
  /\ rejection' = [rejection EXCEPT ![i] = err]
  /\ logger' = Append(logger, LogEntry("debug", "Fetch error cause", "", NoStatus,
                                       Undefined, err.cause))
  /\ IF Len(requests[i]) < 2
     THEN /\ requests' = [requests EXCEPT ![i] = Append(@, @[1])]
          /\ elapsed' = [elapsed EXCEPT ![i] = 0]
          /\ UNCHANGED <<pc, outcome>>
     ELSE /\ outcome' = [outcome EXCEPT ![i] = Thrown(err)]
          /\ pc' = [pc EXCEPT ![i] = "done"]
          /\ UNCHANGED <<requests, elapsed>>
  /\ UNCHANGED <<host, normVars, lifeVars, inputVars, configuration, challengesToPredict,
                 response>>

\* Variant: the .catch throws a PipeError in place of err.
FetchRejectedWraps(i, err) ==
  /\ rejection' = [rejection EXCEPT ![i] = err]
  /\ logger' = Append(logger, LogEntry("debug", "Fetch error cause", "", NoStatus,
                                       Undefined, err.cause))
  /\ outcome' = [outcome EXCEPT ![i] =
       Thrown(PipeError(PipeResponseCodes.INTERNAL_SERVER_ERROR, err.message, Undefined))]
  /\ pc' = [pc EXCEPT ![i] = "done"]
  /\ UNCHANGED <<host, normVars, lifeVars, inputVars, configuration, challengesToPredict,
                 response, elapsed, requests>>

\* The .catch of the fetch: log the cause at debug level, throw err again.
\* Nothing in predictFixtureResults catches it.
FetchRejected(i, err) ==
  /\ rejection' = [rejection EXCEPT ![i] = err]
  /\ logger' = Append(logger, LogEntry("debug", "Fetch error cause", "", NoStatus,
                                       Undefined, err.cause))
  /\ outcome' = [outcome EXCEPT ![i] = Thrown(err)]
  /\ pc' = [pc EXCEPT ![i] = "done"]
  /\ UNCHANGED <<host, normVars, lifeVars, inputVars, configuration, challengesToPredict,
                 response, elapsed, requests>>

\* The fetch fails on the network before the timeout.
FetchFails(i) ==
  /\ pc[i] = "fetch"
  /\ elapsed[i] < TimeoutMs
  /\ \E err \in NetworkErrors : FetchRejected(i, err)

\* The downstream stalls for 120 seconds: the signal aborts the fetch.
FetchTimesOut(i) ==
  /\ pc[i] = "fetch"
  /\ elapsed[i] >= TimeoutMs
  /\ FetchRejected(i, TimeoutError)

\* The response head arrives; the call goes on to read the body.
ResponseArrives(i) ==
  /\ pc[i] = "fetch"
  /\ elapsed[i] < TimeoutMs
  /\ \E status \in Statuses, readable \in BOOLEAN,
        body \in {challengesToPredict[i], FixedPredictions, HtmlBody} :
       LET r == Response(status, readable, IF readable THEN body ELSE Undefined)
       IN /\ readable \/ body = HtmlBody
          /\ response' = [response EXCEPT ![i] = r]
          /\ pc' = [pc EXCEPT ![i] = IF r.ok THEN "debugBody" ELSE "errorBody"]
  /\ UNCHANGED <<host, normVars, lifeVars, inputVars, configuration, challengesToPredict,
                 elapsed, outcome, rejection, requests, logger>>

\* !response.ok: the body is read for the log, a placeholder if that fails,
\* and a PipeError is thrown.
ErrorBodyRead(i) ==
  /\ pc[i] = "errorBody"
  /\ logger' = Append(logger,
       LogEntry("error", "API call failed with status", configuration[i].apiBaseURL,
                ResponseOf(i).status,
                IF ResponseOf(i).readable THEN ResponseOf(i).body
                ELSE PlainText("[body not available]"), ""))
  /\ outcome' = [outcome EXCEPT ![i] = Thrown(PredictionRequestFailed(ResponseOf(i)))]
  /\ pc' = [pc EXCEPT ![i] = "done"]
  /\ UNCHANGED <<host, normVars, lifeVars, inputVars, configuration, challengesToPredict,
                 response, elapsed, rejection, requests>>

\* response.ok: a clone of the body is read for the debug log.
DebugBodyRead(i) ==
  /\ pc[i] = "debugBody"
  /\ logger' = Append(logger,
       LogEntry("debug", "Response got", configuration[i].apiBaseURL, NoStatus,
                IF ResponseOf(i).readable THEN ResponseOf(i).body
                ELSE PlainText("[not available]"), ""))
  /\ pc' = [pc EXCEPT ![i] = "json"]
  /\ UNCHANGED <<host, normVars, lifeVars, inputVars, configuration, challengesToPredict,
                 response, elapsed, outcome, rejection, requests>>

\* response.json() settles; on success predictFixtureResults returns
\* { predictions: JSON.stringify(apiResponse), responseCode: OK }.
JsonRead(i) ==
  /\ pc[i] = "json"
  /\ outcome' = [outcome EXCEPT ![i] =
       IF ~ResponseOf(i).readable THEN Thrown(BodyReadError)
       ELSE IF ResponseOf(i).body.syntax # "json" THEN Thrown(SyntaxError)
       ELSE Returned(JSONStringify(ResponseOf(i).body.v), PipeResponseCodes.OK)]
  /\ pc' = [pc EXCEPT ![i] = "done"]
  /\ UNCHANGED <<host, normVars, lifeVars, inputVars, configuration, challengesToPredict,
                 response, elapsed, rejection, requests, logger>>

Next ==
  \E i \in Calls :
    \/ Invoke(i)
    \/ ConfigurationResolved(i)
    \/ Tick(i)
    \/ FetchFails(i)
    \/ FetchTimesOut(i)
    \/ ResponseArrives(i)
    \/ ErrorBodyRead(i)
    \/ DebugBodyRead(i)
    \/ JsonRead(i)

Spec == Init /\ [][Next]_vars

\* ------------------------------------------------ create, getDetails, delete

DeploymentStatuses == {"Running", "Deploying", "Closed"}

InitLifecycle ==
  /\ host = 0
  /\ NormParked
  /\ CallsParked
  /\ lpc = "new"
  /\ offer \in OfferInputs
  /\ created = NotCreated
  /\ stored = NoResource
  /\ details = NoDetails

\* create(agreement, offer); the leasing subsystem stores what it returns.
create ==
  /\ lpc = "new"
  /\ IF DetailsAreObject(offer)
     THEN LET d == ResourceDetails("Running", NumberOfPredictions(offer), 0)
          IN /\ created' = CreateReturned(d)
             /\ stored' = [deploymentStatus |-> d.status, details |-> d]
             /\ lpc' = "created"
     ELSE /\ created' = CreateThrown(InvalidOfferDetails)
          /\ lpc' = "failed"
          /\ UNCHANGED stored
  /\ UNCHANGED <<host, normVars, inputVars, callVars, offer, details>>

\* The leasing subsystem moves the resource to another deployment status.
StatusChanges ==
  /\ lpc = "created"
  /\ \E st \in DeploymentStatuses \ {stored.deploymentStatus} :
       stored' = [stored EXCEPT !.deploymentStatus = st]
  /\ UNCHANGED <<host, normVars, inputVars, callVars, lpc, offer, created, details>>

\* getDetails(agreement, offer, resource): { ...resource.details, status }
getDetails ==
  /\ lpc = "created"
  /\ details' = [stored.details EXCEPT !.status = stored.deploymentStatus]
  /\ UNCHANGED <<host, normVars, inputVars, callVars, lpc, offer, created, stored>>

\* delete(agreement, offer, resource): nothing is done.
delete ==
  /\ lpc = "created"
  /\ lpc' = "deleted"
  /\ UNCHANGED <<host, normVars, inputVars, callVars, offer, created, stored, details>>

NextLifecycle == create \/ StatusChanges \/ getDetails \/ delete

SpecLifecycle == InitLifecycle /\ [][NextLifecycle]_vars

\* ---------------------------------------------- claims on the normalization

\* The string has the shape YYYY-MM-DDTHH:MM:SSZ.
MatchesPattern(t) == t.k = "iso" /\ t.yfmt = "YYYY" /\ t.ms = -1 /\ t.tz = "Z"

\* C7: normalizing an already normalized payload of a valid challenge array
\* gives a payload identical to the result of normalizing once.
C7_Idempotent ==
  (nStep = 2 /\ ValidChallenges(nInput, host)) => nTwice = nOnce

\* A valid two-record array with white space and a sub-second fraction has
\* been normalized twice.
C7_Witness ==
  /\ nStep = 2
  /\ ValidChallenges(nInput, host)
  /\ nInput.layout = "spaced"
  /\ Len(nInput.v.items) = 2
  /\ nInput.v.items[1].kickoffTime.ms > 0
  /\ nTwice.kind = "return"

\* What C8 says of every record but the shape of the year.
C8_RecordsKept ==
  /\ nOnce.kind = "return"
  /\ nOnce.text.syntax = "json"
  /\ nOnce.text.v.k = "array"
  /\ Len(nOnce.text.v.items) = Len(nInput.v.items)
  /\ \A n \in DOMAIN nInput.v.items :
       LET in == nInput.v.items[n]
           out == nOnce.text.v.items[n]
       IN /\ [out EXCEPT !.kickoffTime = in.kickoffTime] = in
          /\ out.kickoffTime.k = "iso"
          /\ out.kickoffTime.ms = -1
          /\ out.kickoffTime.tz = "Z"
          /\ NewDate(out.kickoffTime, host)
               = WholeSeconds(NewDate(in.kickoffTime, host))

\* C8 as stated: count, order and the other fields are kept and every output
\* kickoffTime matches YYYY-MM-DDTHH:MM:SSZ, the input instant in whole seconds.
C8_AsStated ==
  (nStep >= 1 /\ ValidChallenges(nInput, host)) =>
    /\ C8_RecordsKept
    /\ \A n \in DOMAIN nOnce.text.v.items :
         MatchesPattern(nOnce.text.v.items[n].kickoffTime)

\* C8 amended: count, order and the other fields are kept, every output
\* kickoffTime is the input instant in whole seconds, printed in UTC with no
\* fraction and a Z suffix, and it matches YYYY-MM-DDTHH:MM:SSZ whenever that
\* instant's UTC year lies in 0000..9999.
C8_Amended ==
  (nStep >= 1 /\ ValidChallenges(nInput, host)) =>
    /\ C8_RecordsKept
    /\ \A n \in DOMAIN nOnce.text.v.items :
         LET out == nOnce.text.v.items[n].kickoffTime
         IN out.y \in 0..9999 => MatchesPattern(out)

\* Two records with different teams, the first with a fraction and a zone
\* offset that moves the date, have been normalized.
C8_Witness ==
  /\ nStep = 1
  /\ ValidChallenges(nInput, host)
  /\ Len(nInput.v.items) = 2
  /\ nInput.v.items[1].kickoffTime.ms > 0
  /\ nInput.v.items[1].kickoffTime.tz = "-01:00"
  /\ nInput.v.items[1].kickoffTime.y = 2024
  /\ nInput.v.items[2].home = "C"
  /\ nOnce.text.v.items[1].kickoffTime.d = 1

\* ------------------------------------------ claims on predictFixtureResults

\* What the resolver holds for the call's offer.
Resolved(i) == GetVirtualProviderConfiguration(agreement[i].offerId, ProtocolAddress)

\* out is array `in` with every kickoffTime rewritten and nothing else changed.
RewrittenFrom(in, out, h) ==
  /\ out.syntax = "json"
  /\ out.layout = "compact"
  /\ out.v.k = "array"
  /\ Len(out.v.items) = Len(in.v.items)
  /\ \A n \in DOMAIN in.v.items :
       /\ [out.v.items[n] EXCEPT !.kickoffTime = in.v.items[n].kickoffTime] = in.v.items[n]
       /\ TruncatedFrom(in.v.items[n].kickoffTime, out.v.items[n].kickoffTime, h)

\* C1: when the resolver has no configuration for the call's offer, the call
\* fails with ConfigurationMissing (internal-error code) and no request is ever
\* issued for it; a request is issued only after the lookup gave a configuration.
C1_NoConfigurationNoRequest ==
  \A i \in Calls :
    /\ ~Resolved(i).found =>
         /\ requests[i] = <<>>
         /\ pc[i] \notin {"fetch", "errorBody", "debugBody", "json"}
         /\ pc[i] = "done" =>
              /\ outcome[i].kind = "throw"
              /\ outcome[i].error.type = "PipeError"
              /\ outcome[i].error.code = "INTERNAL_SERVER_ERROR"
              /\ outcome[i].error.message = "Configuration of the Offer is not found"
    /\ requests[i] # <<>> =>
         /\ pc[i] \notin {"idle", "lookup"}
         /\ configuration[i].found

\* A call whose offer has no configuration has ended while another call has
\* issued its request.
C1_Witness ==
  \E i, j \in Calls :
    /\ ~Resolved(i).found
    /\ pc[i] = "done"
    /\ challenges[i].syntax = "json"
    /\ requests[j] # <<>>

\* C2: with a valid challenge array and a downstream answer of success status
\* and parseable body, the call has sent one POST to configuration.apiBaseURL
\* with bearer configuration.apiKey whose body is the challenge array with every
\* kickoffTime cut to whole seconds and a Z suffix, and returns OK with
\* predictions the serialization of the parsed downstream body.
C2_ForwardAndReturn ==
  \A i \in Calls :
    ( /\ pc[i] = "done"
      /\ Resolved(i).found
      /\ ValidChallenges(challenges[i], host)
      /\ response[i].arrived
      /\ response[i].ok
      /\ response[i].readable
      /\ response[i].body.syntax = "json" ) =>
      /\ Len(requests[i]) = 1
      /\ requests[i][1].method = "POST"
      /\ requests[i][1].url = Resolved(i).apiBaseURL
      /\ requests[i][1].contentType = "application/json"
      /\ requests[i][1].authorization =
           [scheme |-> "Bearer", credential |-> Resolved(i).apiKey]
      /\ RewrittenFrom(challenges[i], requests[i][1].body, host)
      /\ outcome[i].kind = "return"
      /\ outcome[i].responseCode = "OK"
      /\ outcome[i].predictions = JsonText("compact", response[i].body.v)

\* A call with a sub-second kickoffTime got its own request body echoed back
\* and has returned.
C2_Witness ==
  \E i \in Calls :
    /\ pc[i] = "done"
    /\ outcome[i].kind = "return"
    /\ challenges[i].v.items[1].kickoffTime.ms > 0
    /\ response[i].body = requests[i][1].body
    /\ outcome[i].predictions.v.items[1].kickoffTime.ms = -1

\* C3: on a downstream answer of non-success status, whatever the status and
\* the body and also when the body cannot be read, the call fails with
\* PredictionRequestFailed carrying the internal-error code; the error carries
\* neither the status nor the body; the log does.
C3_NonSuccessHidden ==
  \A i \in Calls :
    (pc[i] = "done" /\ response[i].arrived /\ ~response[i].ok) =>
      /\ outcome[i].kind = "throw"
      /\ outcome[i].error.type = "PipeError"
      /\ outcome[i].error.code = "INTERNAL_SERVER_ERROR"
      /\ outcome[i].error.message = "Prediction is failed"
      /\ outcome[i].error.predictions = PlainText("")
      /\ outcome[i].error.status = NoStatus
      /\ outcome[i].error.body = Undefined
      /\ \E n \in DOMAIN logger :
           /\ logger[n].level = "error"
           /\ logger[n].url = Resolved(i).apiBaseURL
           /\ logger[n].status = response[i].status
           /\ logger[n].text = IF response[i].readable THEN response[i].body
                               ELSE PlainText("[body not available]")

\* A call answered 500 with a readable body and a call answered 404 with a
\* body that cannot be read have both ended.
C3_Witness ==
  \E i, j \in Calls :
    /\ pc[i] = "done" /\ response[i].status = 500 /\ response[i].readable
    /\ pc[j] = "done" /\ response[j].status = 404 /\ ~response[j].readable
         /\ response[j].arrived

\* A failure after the request went out: a rejected fetch, a non-success
\* status, or a body of a success answer that cannot be read or parsed.
FailedDownstream(i) ==
  \/ rejection[i] # NoError
  \/ /\ response[i].arrived
     /\ pc[i] = "done"
     /\ ~response[i].ok \/ ~response[i].readable \/ response[i].body.syntax # "json"

\* C4: a call issues at most one outbound POST on every path; after a network
\* error, a timeout abort, a non-success status or an unparseable body it has
\* ended with the failure thrown to its caller and no second request.
C4_AtMostOneRequest ==
  \A i \in Calls :
    /\ Len(requests[i]) <= 1
    /\ FailedDownstream(i) =>
         /\ pc[i] = "done"
         /\ outcome[i].kind = "throw"
         /\ Len(requests[i]) = 1

\* One call has ended on the timeout abort, another on a network error.
C4_Witness ==
  \E i, j \in Calls :
    /\ rejection[i] = TimeoutError /\ elapsed[i] >= TimeoutMs /\ pc[i] = "done"
    /\ rejection[j] \in NetworkErrors /\ pc[j] = "done"

\* C5: every failure of the call from missing configuration, a malformed
\* challenge payload, a non-success status or an unparseable response body
\* reaches the caller as a typed error with the internal-error code.
C5_EveryFailureTyped ==
  \A i \in Calls :
    ( /\ pc[i] = "done"
      /\ rejection[i] = NoError
      /\ response[i].arrived => (~response[i].ok \/ response[i].readable) ) =>
      \/ outcome[i].kind = "return"
      \/ /\ outcome[i].kind = "throw"
         /\ outcome[i].error.type = "PipeError"
         /\ outcome[i].error.code = "INTERNAL_SERVER_ERROR"

\* C6: when the fetch is rejected (network error or timeout abort), the call
\* throws the very error the fetch rejected with, and a debug entry with its
\* cause is in the log by then.
C6_TransportErrorRethrown ==
  \A i \in Calls :
    rejection[i] # NoError =>
      /\ pc[i] = "done"
      /\ outcome[i] = Thrown(rejection[i])
      /\ \E n \in DOMAIN logger :
           /\ logger[n].level = "debug"
           /\ logger[n].message = "Fetch error cause"
           /\ logger[n].cause = rejection[i].cause

\* A call has thrown a network error with a cause while the other call's
\* fetch is still pending.
C6_Witness ==
  \E i, j \in Calls :
    /\ outcome[i].kind = "throw"
    /\ outcome[i].error.cause = "ECONNREFUSED"
    /\ pc[j] = "fetch"

\* What the call returns or throws when it runs alone, given its arguments and
\* what the downstream answered to it.
Alone(i) ==
  LET norm == NormalizeChallenges(challenges[i], host)
  IN IF ~Resolved(i).found THEN Thrown(ConfigurationMissing)
     ELSE IF norm.kind = "throw" THEN Thrown(norm.error)
     ELSE IF rejection[i] # NoError THEN Thrown(rejection[i])
     ELSE IF ~response[i].ok
     THEN Thrown(PipeError("INTERNAL_SERVER_ERROR", "Prediction is failed", PlainText("")))
     ELSE IF ~response[i].readable THEN Thrown(BodyReadError)
     ELSE IF response[i].body.syntax # "json" THEN Thrown(SyntaxError)
     ELSE Returned(JsonText("compact", response[i].body.v), "OK")

\* Every request of the call carries the call's own configuration and the
\* body made from its own challenges, and an ended call has the outcome it has
\* when run alone.
C10_OwnDataOnly ==
  \A i \in Calls :
    /\ \A n \in DOMAIN requests[i] :
         /\ requests[i][n].url = Resolved(i).apiBaseURL
         /\ requests[i][n].authorization.credential = Resolved(i).apiKey
         /\ requests[i][n].body = NormalizeChallenges(challenges[i], host).text
    /\ pc[i] = "done" => outcome[i] = Alone(i)

\* C10: concurrent calls are independent under every interleaving of their
\* suspension points: each sends the body made from its own challenges with its
\* own configuration and ends as it does alone, and no step changes a call's
\* challenges, agreement or resource.
C10_Independent ==
  /\ []C10_OwnDataOnly
  /\ [][UNCHANGED <<agreement, resource, challenges>>]_vars

\* Two calls with different offers, challenges and downstream answers have
\* both ended, one returning and one throwing, the error entry of the failed
\* one written to the shared log before the other's debug entry.
C10_Witness ==
  \E i, j \in Calls :
    /\ pc[i] = "done" /\ pc[j] = "done"
    /\ agreement[i] # agreement[j]
    /\ challenges[i] # challenges[j]
    /\ outcome[i].kind = "return"
    /\ outcome[j].kind = "throw"
    /\ response[j].arrived
    /\ Len(logger) = 2
    /\ logger[1].level = "error"

\* ----------------------------------------------------------- claim on create

====
